---- MODULE Spec2Model ----
(***************************************************************************)
(* The SLOW peripheral (client): the Session engine of session.hpp, and    *)
(* the connect / revive flows and the driver loop of peripheral.cpp.       *)
(*                                                                         *)
(* 32-bit unsigned values (seqnum, acknum) are pairs <<hi, lo>> of 16-bit  *)
(* halves, so that the arithmetic modulo 2^32 of uint32_t is kept.         *)
(* Time points are integers; 0 is the default-constructed time_point.      *)
(***************************************************************************)
EXTENDS Integers, Sequences, FiniteSets, TLC

(*------------------------------ bounds ---------------------------------*)
MaxTime == 3        \* the clock runs from 1 to MaxTime
MaxRx == 2          \* datagrams received by one run of the driver loop
MaxCalls == 3       \* queue_data calls made on one session through its API
MaxFidCalls == 257  \* queue_data calls of the long-running session
Rto == 1            \* the retransmission timeout (--rto), in clock units
MaxAcks == 1        \* handle_ack calls made on one session through its API
MaxFrags == 3       \* packets one queue_data call of the API harness may push
MaxPerm == 3        \* fragments of a payload whose every arrival order is tried
MaxDup == 1         \* fragments that arrive a second time
MaxWinCalls == 2    \* calls made in a row on the local window

(*------------------------- program constants ---------------------------*)
MAX_PAY == 1440
LIM == 65535
Half == 65536       \* uint32_t is two 16-bit halves
Byte == 256         \* uint8_t wraps at 256

FLAG_CONNECT == 16
FLAG_REVIVE == 8
FLAG_ACK == 4
FLAG_ACCEPT == 2
FLAG_MOREBITS == 1

(*--------------------------- integer types -----------------------------*)
Zero32 == <<0, 0>>

\* x + 1 on uint32_t
Inc32(x) == IF x[2] = Half - 1 THEN <<(x[1] + 1) % Half, 0>> ELSE <<x[1], x[2] + 1>>

\* mutant: the placeholder seqnum is next_seq itself
Dec32_Same(x) == x

\* x - 1 on uint32_t
Dec32(x) == IF x[2] = 0 THEN <<(x[1] + Half - 1) % Half, Half - 1>> ELSE <<x[1], x[2] - 1>>

\* x <= y on uint32_t
Le32(x, y) == x[1] < y[1] \/ (x[1] = y[1] /\ x[2] <= y[2])

Min(a, b) == IF a <= b THEN a ELSE b

\* a size_t value is a pair <<hi, lo>> that stands for hi * 65536 + lo, lo a
\* 16-bit half; SizeOf(k) is the size_t of the container size k
SizeOf(k) == <<k \div Half, k % Half>>

\* (f & b) != 0 for a single-bit b
HasFlag(f, b) == (f \div b) % 2 = 1

\* f | b for a single-bit b
OrFlag(f, b) == IF HasFlag(f, b) THEN f ELSE f + b

(*------------------------------ Packet ---------------------------------*)
ZeroSid == [i \in 1..16 |-> 0]

\* Packet{} : every field at its default
NewPacket ==
  [sid |-> ZeroSid, sttl |-> 0, flags |-> 0, seqnum |-> Zero32, acknum |-> Zero32,
   window |-> 0, fid |-> 0, fo |-> 0, data |-> <<>>]

\* Outbound{p} : a packet that was never sent
NewOutbound(p) == [pkt |-> p, first_sent |-> 0, last_sent |-> 0]

(*------------------------------ Session --------------------------------*)
\* Session::Session(local_window = 65535)
NewSession ==
  [sid_ |-> ZeroSid, sttl_ms_ |-> 0, next_seq_ |-> Zero32, last_ack_rcvd_ |-> Zero32,
   local_window_ |-> LIM, window_remote_ |-> 0, next_fid_ |-> 1,
   last_rx_seq_ |-> Zero32, txq_ |-> <<>>]

\* mutant: next_seq_ starts at the seqnum of the setup packet itself
establish_SeqSame(s, setup) ==
  [s EXCEPT !.sid_ = setup.sid,
            !.sttl_ms_ = setup.sttl,
            !.next_seq_ = setup.seqnum,
            !.window_remote_ = setup.window,
            !.last_ack_rcvd_ = setup.acknum]

\* Session::establish
establish(s, setup) ==
  [s EXCEPT !.sid_ = setup.sid,
            !.sttl_ms_ = setup.sttl,
            !.next_seq_ = Inc32(setup.seqnum),
            !.window_remote_ = setup.window,
            !.last_ack_rcvd_ = setup.acknum]

\* Session::note_rx_seq
note_rx_seq(s, q) == IF q # Zero32 THEN [s EXCEPT !.last_rx_seq_ = q] ELSE s

\* Session::consume_local_window
consume_local_window(s, n) ==
  [s EXCEPT !.local_window_ = IF n[1] > 0 \/ n[2] > @ THEN 0 ELSE @ - n[2]]

\* mutant: the delivered bytes are not given back to the local window
release_local_window_None(s, n) == s

\* Session::release_local_window: local_window_ + n is a size_t sum, which
\* std::min<uint32_t> takes as a uint32_t (the sum modulo 2^32) before it
\* compares it with LIM
release_local_window(s, n) ==
  LET lo == s.local_window_ + n[2]
      sum32 == <<(n[1] + (lo \div Half)) % Half, lo % Half>>
  IN [s EXCEPT !.local_window_ = IF sum32[1] > 0 THEN LIM ELSE Min(LIM, sum32[2])]

RECURSIVE SumInFlight(_, _, _)
\* the bytes of the entries lo..hi of q that were sent; the sum is taken by
\* halves, which keeps the evaluation shallow on a queue of hundreds of entries
SumInFlight(q, lo, hi) ==
  IF lo > hi THEN 0
  ELSE IF lo = hi THEN (IF q[lo].last_sent # 0 THEN Len(q[lo].pkt.data) ELSE 0)
  ELSE SumInFlight(q, lo, (lo + hi) \div 2) + SumInFlight(q, (lo + hi) \div 2 + 1, hi)

\* the in_flight sum of window_remote_left
InFlight(s) == SumInFlight(s.txq_, 1, Len(s.txq_))

\* the number of queued entries that were sent
InFlightCount(s) == Cardinality({i \in 1..Len(s.txq_) : s.txq_[i].last_sent # 0})

\* Session::window_remote_left
window_remote_left(s) ==
  IF s.window_remote_ > InFlight(s) THEN s.window_remote_ - InFlight(s) ELSE 0

\* mutant: with the remote window closed the rest of the payload goes into
\* one packet
ChunkSize_WholeRest(avail, rest) ==
  IF avail = 0 THEN rest ELSE Min(Min(avail, MAX_PAY), rest)

\* the chunk size chosen by queue_data
ChunkSize(avail, rest) ==
  Min(Min(IF avail = 0 THEN MAX_PAY ELSE avail, MAX_PAY), rest)

\* the packet queue_data builds for the chunk at off
ChunkPacket(s, payload, is_revive, off, fo, here) ==
  LET f1 == IF is_revive /\ off = 0 THEN OrFlag(FLAG_ACK, FLAG_REVIVE) ELSE FLAG_ACK
      f2 == IF off + here < Len(payload) THEN OrFlag(f1, FLAG_MOREBITS) ELSE f1
  IN [sid |-> s.sid_, sttl |-> s.sttl_ms_, flags |-> f2,
      seqnum |-> s.next_seq_, acknum |-> s.last_rx_seq_,
      window |-> s.local_window_,
      fid |-> IF Len(payload) > MAX_PAY THEN s.next_fid_ ELSE 0,
      fo |-> fo,
      data |-> SubSeq(payload, off + 1, off + here)]

\* the while loop of queue_data; early is TRUE when the loop returned from
\* the function (window exhausted with a non-empty queue)
RECURSIVE QueueLoop(_, _, _, _, _)
QueueLoop(s, payload, is_revive, off, fo) ==
  IF off >= Len(payload) THEN [s |-> s, early |-> FALSE]
  ELSE LET avail == window_remote_left(s) IN
       IF avail = 0 /\ s.txq_ # <<>> THEN [s |-> s, early |-> TRUE]
       ELSE LET here == ChunkSize(avail, Len(payload) - off)
                p == ChunkPacket(s, payload, is_revive, off, fo, here)
                s2 == [s EXCEPT !.next_seq_ = Inc32(@),
                                !.txq_ = Append(@, NewOutbound(p))]
            IN QueueLoop(s2, payload, is_revive, off + here, (fo + 1) % Byte)

\* Session::queue_data
queue_data(s, payload, is_revive) ==
  IF payload = <<>> /\ is_revive
  THEN LET p == [NewPacket EXCEPT !.sid = s.sid_, !.sttl = s.sttl_ms_,
                                  !.flags = OrFlag(FLAG_REVIVE, FLAG_ACK),
                                  !.seqnum = s.next_seq_,
                                  !.acknum = s.last_rx_seq_,
                                  !.window = s.local_window_]
       IN [s EXCEPT !.next_seq_ = Inc32(@), !.txq_ = Append(@, NewOutbound(p))]
  ELSE LET r == QueueLoop(s, payload, is_revive, 0, 0) IN
       IF r.early THEN r.s
       ELSE IF Len(payload) > MAX_PAY
            THEN [r.s EXCEPT !.next_fid_ = (@ + 1) % Byte]
            ELSE r.s

\* the pop_front loop of handle_ack
RECURSIVE PopAcked(_, _)
PopAcked(q, acknum) ==
  IF q # <<>> /\ Le32(Head(q).pkt.seqnum, acknum) THEN PopAcked(Tail(q), acknum) ELSE q

\* Session::handle_ack
handle_ack(s, acknum, win_remote, new_sttl) ==
  [s EXCEPT !.last_ack_rcvd_ = acknum,
            !.window_remote_ = win_remote,
            !.sttl_ms_ = new_sttl,
            !.txq_ = PopAcked(@, acknum)]

\* mutant: the timeout test with >= in place of >
TimedOut_AtRto(ob, t, rto_ms) == ob.first_sent # 0 /\ (t - ob.last_sent) >= rto_ms

\* the timed_out test of ready_to_send
TimedOut(ob, t, rto_ms) == ob.first_sent # 0 /\ (t - ob.last_sent) > rto_ms

RECURSIVE ReadyWalk_NoDeduct(_, _, _, _, _)
\* mutant: the walk that forgets to deduct an admitted entry from bytes_left
ReadyWalk_NoDeduct(q, t, rto_ms, i, bytes_left) ==
  IF i > Len(q) THEN <<>>
  ELSE LET ob == q[i]
           never_sent == ob.first_sent = 0
           timed_out == TimedOut(ob, t, rto_ms)
           is_revive_packet == HasFlag(ob.pkt.flags, FLAG_REVIVE)
       IN IF ~never_sent /\ ~timed_out
          THEN ReadyWalk_NoDeduct(q, t, rto_ms, i + 1, bytes_left)
          ELSE IF is_revive_packet \/ Len(ob.pkt.data) <= bytes_left
               THEN <<i>> \o ReadyWalk_NoDeduct(q, t, rto_ms, i + 1, bytes_left)
               ELSE <<>>

RECURSIVE ReadyWalk_NoBypass(_, _, _, _, _)
\* mutant: the walk that holds a REVIVE entry to the window like any other
ReadyWalk_NoBypass(q, t, rto_ms, i, bytes_left) ==
  IF i > Len(q) THEN <<>>
  ELSE LET ob == q[i]
           never_sent == ob.first_sent = 0
           timed_out == TimedOut(ob, t, rto_ms)
       IN IF ~never_sent /\ ~timed_out
          THEN ReadyWalk_NoBypass(q, t, rto_ms, i + 1, bytes_left)
          ELSE IF Len(ob.pkt.data) <= bytes_left
               THEN <<i>> \o ReadyWalk_NoBypass(q, t, rto_ms, i + 1,
                                                bytes_left - Len(ob.pkt.data))
               ELSE <<>>

RECURSIVE ReadyWalk_Continue(_, _, _, _, _)
\* mutant: the walk that passes over an entry the window does not admit and
\* goes on with the entries after it
ReadyWalk_Continue(q, t, rto_ms, i, bytes_left) ==
  IF i > Len(q) THEN <<>>
  ELSE LET ob == q[i]
           never_sent == ob.first_sent = 0
           timed_out == TimedOut(ob, t, rto_ms)
           is_revive_packet == HasFlag(ob.pkt.flags, FLAG_REVIVE)
       IN IF ~never_sent /\ ~timed_out
          THEN ReadyWalk_Continue(q, t, rto_ms, i + 1, bytes_left)
          ELSE IF is_revive_packet \/ Len(ob.pkt.data) <= bytes_left
               THEN <<i>> \o ReadyWalk_Continue(q, t, rto_ms, i + 1,
                                                IF is_revive_packet THEN bytes_left
                                                ELSE bytes_left - Len(ob.pkt.data))
               ELSE ReadyWalk_Continue(q, t, rto_ms, i + 1, bytes_left)

\* the walk of ready_to_send over the queue from entry i on: the indices
\* of the entries it returns
RECURSIVE ReadyWalk(_, _, _, _, _)
ReadyWalk(q, t, rto_ms, i, bytes_left) ==
  IF i > Len(q) THEN <<>>
  ELSE LET ob == q[i]
           never_sent == ob.first_sent = 0
           timed_out == TimedOut(ob, t, rto_ms)
           is_revive_packet == HasFlag(ob.pkt.flags, FLAG_REVIVE)
       IN IF ~never_sent /\ ~timed_out
          THEN ReadyWalk(q, t, rto_ms, i + 1, bytes_left)
          ELSE IF is_revive_packet \/ Len(ob.pkt.data) <= bytes_left
               THEN <<i>> \o ReadyWalk(q, t, rto_ms, i + 1,
                                       IF is_revive_packet THEN bytes_left
                                       ELSE bytes_left - Len(ob.pkt.data))
               ELSE <<>>

\* mutant: the walk starts with the whole remote window, the bytes in
\* flight are not subtracted
ready_to_send_WholeWindow(s, t, rto_ms) == ReadyWalk(s.txq_, t, rto_ms, 1, s.window_remote_)

\* Session::ready_to_send, called at time t
ready_to_send(s, t, rto_ms) == ReadyWalk(s.txq_, t, rto_ms, 1, window_remote_left(s))


(*------------------------- reassembly (FragBuf) ------------------------*)
\* FragBuf{} : no parts, last = false, max = 0
NewFragBuf == [parts |-> <<>>, last |-> FALSE, max |-> 0]

\* parts[i] of std::map: the stored data, or a new empty entry
PartAt(parts, i) == IF i \in DOMAIN parts THEN parts[i] ELSE <<>>

RECURSIVE FinishLoop(_, _, _)
FinishLoop(parts, i, max) ==
  IF i > max THEN <<>> ELSE PartAt(parts, i) \o FinishLoop(parts, i + 1, max)

\* FragBuf::finish: the bytes returned; hang is TRUE when the uint8_t loop
\* counter can never exceed max (max = 255), so the loop does not end
finish(fb) ==
  IF ~fb.last \/ Cardinality(DOMAIN fb.parts) # fb.max + 1
  THEN [all |-> <<>>, hang |-> FALSE]
  ELSE IF fb.max = Byte - 1
       THEN [all |-> <<>>, hang |-> TRUE]
       ELSE [all |-> FinishLoop(fb.parts, 0, fb.max), hang |-> FALSE]

(*--------------------------- state on disk -----------------------------*)
\* StateDisk{} : sid all zero, the three counters zero
NewStateDisk == [sid |-> ZeroSid, sttl |-> 0, next_seq |-> Zero32, last_ack |-> Zero32]

\* a file that cannot be opened
NoFile == [exists |-> FALSE, len |-> 0, rec |-> NewStateDisk]

\* StateDisk::save: the 28 bytes of sd written to a file
save(sd) == [exists |-> TRUE, len |-> 28, rec |-> sd]

\* what f.read(&x, 4) leaves in the zero-initialised x when n bytes of its
\* little-endian image are left in the file
Read32(x, n) ==
  IF n >= 4 THEN x
  ELSE IF n = 3 THEN <<x[1] % Byte, x[2]>>
  ELSE IF n = 2 THEN <<0, x[2]>>
  ELSE IF n = 1 THEN <<0, x[2] % Byte>>
  ELSE Zero32

\* StateDisk::load: FALSE only when the file cannot be opened; the reads
\* that run past the end of the file leave the fields as constructed
load(f) ==
  [ok |-> f.exists,
   sd |-> [sid |-> [i \in 1..16 |-> IF i <= f.len THEN f.rec.sid[i] ELSE 0],
           sttl |-> IF f.len >= 20 THEN f.rec.sttl
                    ELSE IF f.len <= 16 THEN 0
                    ELSE f.rec.sttl % (Byte ^ (f.len - 16)),
           next_seq |-> Read32(f.rec.next_seq, f.len - 20),
           last_ack |-> Read32(f.rec.last_ack, f.len - 24)]]

(*------------------------------ the codec ------------------------------*)
\* the header: 16 + 4 + 4 + 4 + 2 + 1 + 1 bytes
MIN == 32

\* mutant: the flags in the high 5 bits of the word, the sttl in the low 27
PackSttl_FlagsHigh(p) ==
  LET t == p.sttl % (2 ^ 27)
  IN <<(p.flags % 32) * (2 ^ 11) + (t \div Half), t % Half>>

\* flags_sttl = ((sttl & 0x07FFFFFF) << 5) | (flags & 0x1F), as a uint32_t
PackSttl(p) ==
  LET t == p.sttl % (2 ^ 27)
  IN <<t \div (2 ^ 11), (t % (2 ^ 11)) * 32 + (p.flags % 32)>>

\* append16le: the two bytes of a uint16_t, low byte first
append16le(x) == <<x % Byte, (x \div Byte) % Byte>>

\* append32le: the four bytes of a uint32_t, low byte first
append32le(x) == <<x[2] % Byte, x[2] \div Byte, x[1] % Byte, x[1] \div Byte>>

\* read16le(buf + off)
read16le(buf, off) == buf[off + 1] + buf[off + 2] * Byte

\* mutant: the four bytes read high byte first
read32le_BigEndian(buf, off) ==
  <<buf[off + 2] + buf[off + 1] * Byte, buf[off + 4] + buf[off + 3] * Byte>>

\* read32le(buf + off)
read32le(buf, off) ==
  <<buf[off + 3] + buf[off + 4] * Byte, buf[off + 1] + buf[off + 2] * Byte>>

\* mutant: a payload of 1440 bytes is refused too
serialize_Below1440(p) ==
  IF Len(p.data) >= 1440
  THEN [ok |-> FALSE, raw |-> <<>>]
  ELSE [ok |-> TRUE,
        raw |-> p.sid \o append32le(PackSttl(p)) \o append32le(p.seqnum)
                  \o append32le(p.acknum) \o append16le(p.window)
                  \o <<p.fid, p.fo>> \o p.data]

\* Packet::serialize: ok is FALSE when it throws
serialize(p) ==
  IF Len(p.data) > 1440
  THEN [ok |-> FALSE, raw |-> <<>>]
  ELSE [ok |-> TRUE,
        raw |-> p.sid \o append32le(PackSttl(p)) \o append32le(p.seqnum)
                  \o append32le(p.acknum) \o append16le(p.window)
                  \o <<p.fid, p.fo>> \o p.data]

\* Packet::deserialize: ok is FALSE when it throws
deserialize(buf) ==
  IF Len(buf) < MIN
  THEN [ok |-> FALSE, p |-> NewPacket]
  ELSE LET flags_sttl == read32le(buf, 16)
       IN [ok |-> TRUE,
           p |-> [sid |-> SubSeq(buf, 1, 16),
                  sttl |-> flags_sttl[1] * (2 ^ 11) + (flags_sttl[2] \div 32),
                  flags |-> flags_sttl[2] % 32,
                  seqnum |-> read32le(buf, 20),
                  acknum |-> read32le(buf, 24),
                  window |-> read16le(buf, 28),
                  fid |-> buf[31],
                  fo |-> buf[32],
                  data |-> SubSeq(buf, 33, Len(buf))]]

(*------------------------------- inputs --------------------------------*)
\* the application payload of length L
Payload(L) == [i \in 1..L |-> (i - 1) % 251]

PayloadLens == {0, 6, MAX_PAY, MAX_PAY + 1}

SidA == [i \in 1..16 |-> i]

\* seqnum values a central may put in its SETUP
SetupSeqs == {<<0, 99>>, <<Half - 1, Half - 2>>}

\* window values a central may advertise
Windows == {0, 1000, MAX_PAY, LIM}

\* the SETUP responses; the seqnum next to the wrap comes with one window
Setups ==
  { [NewPacket EXCEPT !.sid = SidA, !.sttl = 500, !.flags = f,
                      !.seqnum = q, !.window = w]
      : f \in {FLAG_ACCEPT, 0},
        q \in SetupSeqs,
        w \in Windows }
  \ { [NewPacket EXCEPT !.sid = SidA, !.sttl = 500, !.flags = f,
                        !.seqnum = <<Half - 1, Half - 2>>, !.window = w]
        : f \in {FLAG_ACCEPT, 0}, w \in Windows \ {1000} }

\* the records a state file may hold
SavedStates ==
  { [sid |-> SidA, sttl |-> 500, next_seq |-> q, last_ack |-> a]
      : q \in {<<0, 103>>, Zero32}, a \in {<<0, 102>>} }

\* the lengths of the state files cut short: the sid and the sttl only
ShortLens == {20}

\* the files --revive may name: none, the saved records, one record cut short
StateFiles ==
  {NoFile}
  \cup { save(r) : r \in SavedStates }
  \cup { [save(r) EXCEPT !.len = n]
           : n \in ShortLens, r \in {x \in SavedStates : x.next_seq # Zero32} }

(*------------------------------- state ---------------------------------*)
VARIABLES
  sess,            \* the Session object
  now,             \* steady_clock::now()
  pc,              \* where the process is
  mode,            \* "connect" or "revive" (--revive given)
  payload,         \* the argument of the latest queue_data call
  is_revive,       \* the is_revive argument of the latest queue_data call
  placed,          \* the packets the latest queue_data call pushed
  waiting_dc_ack,  \* drive_session's flag
  batch,           \* what ready_to_send returned, not yet transmitted
  sent,            \* every packet handed to send(), in order, with its tag
  reasm,           \* drive_session's reassembly buckets, by fid
  delivered,       \* the payloads printed by the reassembler
  saved,           \* the record written to the save path, <<>> if none
  rxn,             \* datagrams received in the driver loop
  acks,            \* handle_ack calls made
  calls,           \* queue_data calls made
  fstate,          \* the file named by --revive
  inbound,         \* the fragments the central cut its payload into
  resp,            \* the response to CONNECT, <<>> before it is decoded
  rx,              \* the latest datagram of the driver loop as decoded, else <<>>
  arrived,         \* the fragments of inbound received so far, in order
  call             \* the latest call made on the codec or on the local window

vars == <<sess, now, pc, mode, payload, is_revive, placed, waiting_dc_ack,
          batch, sent, reasm, delivered, saved, rxn, acks, calls,
          fstate, inbound, resp, rx, arrived, call>>

drv == <<waiting_dc_ack, batch, sent, reasm, delivered, saved, rxn>>
args == <<payload, is_revive, placed, calls>>
env == <<fstate, inbound, call>>
heard == <<resp, rx, arrived>>

\* the entries a queue_data call appended to queue q0, as packets
Pushed(q0, q1) == [i \in 1..(Len(q1) - Len(q0)) |-> q1[Len(q0) + i].pkt]

\* tx(p, tag)
Tx(p, tag) == Append(sent, [pkt |-> p, tag |-> tag])

Init ==
  /\ sess = NewSession
  /\ now = 1
  /\ pc = "start"
  /\ mode \in {"connect", "revive"}
  /\ payload \in {Payload(L) : L \in PayloadLens}
  /\ is_revive = (mode = "revive")
  /\ placed = <<>>
  /\ waiting_dc_ack = FALSE
  /\ batch = <<>>
  /\ sent = <<>>
  /\ reasm = <<>>
  /\ delivered = <<>>
  /\ saved = <<>>
  /\ rxn = 0
  /\ acks = 0
  /\ calls = 0
  /\ fstate \in (IF mode = "revive" THEN StateFiles ELSE {NoFile})
  /\ inbound = <<>>
  /\ resp = <<>>
  /\ rx = <<>>
  /\ arrived = <<>>
  /\ call = <<>>

(*---------------------------- run_connect ------------------------------*)
\* run_connect up to the blocking recv: the CONNECT packet is sent
SendConnect ==
  /\ pc = "start" /\ mode = "connect"
  /\ sent' = Tx([NewPacket EXCEPT !.flags = FLAG_CONNECT,
                                  !.window = sess.local_window_], "CONNECT")
  /\ pc' = "hs"
  /\ UNCHANGED <<env, heard, sess, now, mode, waiting_dc_ack, batch, reasm, delivered,
                 saved, rxn, acks, args>>

\* recv returned n <= 0: exit(1)
SetupTimeout ==
  /\ pc = "hs"
  /\ pc' = "abort"
  /\ UNCHANGED <<env, heard, sess, now, mode, acks, drv, args>>

\* the response is shorter than the header: deserialize throws, nothing
\* catches, the process is terminated
SetupShort ==
  /\ pc = "hs"
  /\ pc' = "crash"
  /\ UNCHANGED <<env, heard, sess, now, mode, acks, drv, args>>

\* mutant: the ACCEPT flag of the response is not looked at
RecvSetup_AnyResponse(setup) ==
  /\ pc = "hs"
  /\ resp' = setup
  /\ LET s1 == note_rx_seq(establish(sess, setup), setup.seqnum)
         s2 == IF payload # <<>> THEN queue_data(s1, payload, FALSE) ELSE s1
     IN /\ sess' = s2
        /\ placed' = Pushed(s1.txq_, s2.txq_)
        /\ calls' = IF payload # <<>> THEN calls + 1 ELSE calls
        /\ pc' = "send"
  /\ UNCHANGED <<env, rx, arrived, now, mode, payload, is_revive, acks, drv>>

\* run_connect from the SETUP response on
RecvSetup(setup) ==
  /\ pc = "hs"
  /\ resp' = setup
  /\ IF ~HasFlag(setup.flags, FLAG_ACCEPT)
     THEN /\ pc' = "abort"
          /\ UNCHANGED <<sess, placed, calls>>
     ELSE LET s1 == note_rx_seq(establish(sess, setup), setup.seqnum)
              s2 == IF payload # <<>> THEN queue_data(s1, payload, FALSE) ELSE s1
          IN /\ sess' = s2
             /\ placed' = Pushed(s1.txq_, s2.txq_)
             /\ calls' = IF payload # <<>> THEN calls + 1 ELSE calls
             /\ pc' = "send"
  /\ UNCHANGED <<env, rx, arrived, now, mode, payload, is_revive, acks, drv>>

(*----------------------------- run_revive ------------------------------*)
\* sd.load failed: exit(1)
LoadFail ==
  /\ pc = "start" /\ mode = "revive"
  /\ ~load(fstate).ok
  /\ pc' = "abort"
  /\ UNCHANGED <<env, heard, sess, now, mode, acks, drv, args>>

\* run_revive once sd.load returned true
Revive ==
  /\ pc = "start" /\ mode = "revive"
  /\ load(fstate).ok
  /\ LET sd == load(fstate).sd
         placeholder == [NewPacket EXCEPT !.sid = sd.sid, !.sttl = sd.sttl,
                                          !.seqnum = Dec32(sd.next_seq),
                                          !.acknum = sd.last_ack,
                                          !.window = 0]
         s1 == note_rx_seq(establish(sess, placeholder), sd.last_ack)
         s2 == queue_data(s1, payload, TRUE)
     IN /\ sess' = s2
        /\ placed' = Pushed(s1.txq_, s2.txq_)
        /\ calls' = calls + 1
  /\ pc' = "send"
  /\ UNCHANGED <<env, heard, now, mode, payload, is_revive, acks, drv>>

(*---------------------------- drive_session ----------------------------*)
\* the call of ready_to_send at the top of the loop
SendPhase ==
  /\ pc = "send"
  /\ batch' = ready_to_send(sess, now, Rto)
  /\ pc' = IF batch' = <<>> THEN "dc" ELSE "tx"
  /\ UNCHANGED <<env, heard, sess, now, mode, waiting_dc_ack, sent, reasm, delivered,
                 saved, rxn, acks, args>>

\* the tag the send phase prints
TxTag(ob) ==
  IF ob.first_sent # 0 THEN "RETX"
  ELSE IF HasFlag(ob.pkt.flags, FLAG_REVIVE) THEN "REVIVE" ELSE "DATA/FRAG"

\* mutant: first_sent is stamped at every transmission
TxOne_Restamp(d) ==
  /\ pc = "tx"
  /\ now + d <= MaxTime
  /\ LET i == Head(batch)
         ob == sess.txq_[i]
     IN /\ sent' = Tx(ob.pkt, TxTag(ob))
        /\ sess' = [sess EXCEPT !.txq_[i].first_sent = now,
                                !.txq_[i].last_sent = now + d]
  /\ now' = now + d
  /\ batch' = Tail(batch)
  /\ pc' = IF batch' = <<>> THEN "dc" ELSE "tx"
  /\ UNCHANGED <<env, heard, mode, waiting_dc_ack, reasm, delivered, saved, rxn, acks, args>>

\* one iteration of the send loop; the clock may advance by d between the
\* read that sets first_sent and the read of mark_sent
TxOne(d) ==
  /\ pc = "tx"
  /\ now + d <= MaxTime
  /\ LET i == Head(batch)
         ob == sess.txq_[i]
     IN /\ sent' = Tx(ob.pkt, TxTag(ob))
        /\ sess' = [sess EXCEPT !.txq_[i].first_sent = IF @ = 0 THEN now ELSE @,
                                !.txq_[i].last_sent = now + d]
  /\ now' = now + d
  /\ batch' = Tail(batch)
  /\ pc' = IF batch' = <<>> THEN "dc" ELSE "tx"
  /\ UNCHANGED <<env, heard, mode, waiting_dc_ack, reasm, delivered, saved, rxn, acks, args>>

\* mutant: the disconnect packet is sent on every iteration with an empty queue
Disconnect_Always ==
  /\ pc = "dc"
  /\ IF sess.txq_ = <<>>
     THEN /\ sent' = Tx([NewPacket EXCEPT
                           !.sid = sess.sid_, !.sttl = sess.sttl_ms_,
                           !.flags = OrFlag(OrFlag(FLAG_CONNECT, FLAG_REVIVE), FLAG_ACK),
                           !.seqnum = sess.next_seq_,
                           !.acknum = sess.last_rx_seq_,
                           !.window = 0], "DISCONNECT")
          /\ sess' = [sess EXCEPT !.next_seq_ = Inc32(@)]
          /\ waiting_dc_ack' = TRUE
     ELSE UNCHANGED <<sent, sess, waiting_dc_ack>>
  /\ pc' = "poll"
  /\ UNCHANGED <<env, heard, now, mode, batch, reasm, delivered, saved, rxn, acks, args>>

\* mutant: the disconnect packet is sent at the first pass, whatever the
\* transmit queue holds
Disconnect_Early ==
  /\ pc = "dc"
  /\ IF ~waiting_dc_ack
     THEN /\ sent' = Tx([NewPacket EXCEPT
                           !.sid = sess.sid_, !.sttl = sess.sttl_ms_,
                           !.flags = OrFlag(OrFlag(FLAG_CONNECT, FLAG_REVIVE), FLAG_ACK),
                           !.seqnum = sess.next_seq_,
                           !.acknum = sess.last_rx_seq_,
                           !.window = 0], "DISCONNECT")
          /\ sess' = [sess EXCEPT !.next_seq_ = Inc32(@)]
          /\ waiting_dc_ack' = TRUE
     ELSE UNCHANGED <<sent, sess, waiting_dc_ack>>
  /\ pc' = "poll"
  /\ UNCHANGED <<env, heard, now, mode, batch, reasm, delivered, saved, rxn, acks, args>>

\* the disconnect initiation
Disconnect ==
  /\ pc = "dc"
  /\ IF ~waiting_dc_ack /\ sess.txq_ = <<>>
     THEN /\ sent' = Tx([NewPacket EXCEPT
                           !.sid = sess.sid_, !.sttl = sess.sttl_ms_,
                           !.flags = OrFlag(OrFlag(FLAG_CONNECT, FLAG_REVIVE), FLAG_ACK),
                           !.seqnum = sess.next_seq_,
                           !.acknum = sess.last_rx_seq_,
                           !.window = 0], "DISCONNECT")
          /\ sess' = [sess EXCEPT !.next_seq_ = Inc32(@)]
          /\ waiting_dc_ack' = TRUE
     ELSE UNCHANGED <<sent, sess, waiting_dc_ack>>
  /\ pc' = "poll"
  /\ UNCHANGED <<env, heard, now, mode, batch, reasm, delivered, saved, rxn, acks, args>>

\* poll timed out, or recv returned n <= 0
PollTimeout ==
  /\ pc = "poll"
  /\ pc' = "send"
  /\ UNCHANGED <<env, heard, sess, now, mode, acks, drv, args>>

\* a datagram shorter than the header: deserialize throws, nothing catches,
\* the process is terminated
RecvShort ==
  /\ pc = "poll"
  /\ rxn' = rxn + 1
  /\ rx' = <<>>
  /\ pc' = "crash"
  /\ UNCHANGED <<env, resp, arrived, sess, now, mode, waiting_dc_ack, batch, sent,
                 reasm, delivered, saved, acks, args>>

\* the bucket of fid after pk was stored in it
Stored(pk) ==
  LET fb0 == IF pk.fid \in DOMAIN reasm THEN reasm[pk.fid] ELSE NewFragBuf
      fb1 == [fb0 EXCEPT !.parts = (pk.fo :> pk.data) @@ @]
  IN IF ~HasFlag(pk.flags, FLAG_MOREBITS)
     THEN [fb1 EXCEPT !.last = TRUE, !.max = pk.fo] ELSE fb1

\* the map without the key k
Erase(m, k) == [x \in DOMAIN m \ {k} |-> m[x]]

\* a decoded datagram pk is handled; fs: the save path is not empty
Receive(pk, fs) ==
  /\ pc = "poll"
  /\ rxn' = rxn + 1
  /\ rx' = pk
  /\ arrived' = IF \E i \in 1..Len(inbound) : inbound[i] = pk
                 THEN Append(arrived, pk) ELSE arrived
  /\ LET isack == HasFlag(pk.flags, FLAG_ACK)
         s1 == note_rx_seq(sess, pk.seqnum)
         s2 == IF isack THEN handle_ack(s1, pk.acknum, pk.window, pk.sttl) ELSE s1
     IN /\ acks' = IF isack THEN acks + 1 ELSE acks
        /\ IF waiting_dc_ack /\ isack /\ pk.seqnum = s2.last_ack_rcvd_
           THEN /\ sess' = s2
                /\ saved' = IF fs
                            THEN [sid |-> s2.sid_, sttl |-> s2.sttl_ms_,
                                  next_seq |-> s2.next_seq_, last_ack |-> s2.last_rx_seq_]
                            ELSE saved
                /\ pc' = "done"
                /\ UNCHANGED <<sent, reasm, delivered>>
           ELSE IF pk.data # <<>>
           THEN LET s3 == consume_local_window(s2, SizeOf(Len(pk.data)))
                    fb == Stored(pk)
                    r == finish(fb)
                    s4 == IF r.all # <<>> THEN release_local_window(s3, SizeOf(Len(r.all))) ELSE s3
                IN IF r.hang
                   THEN /\ sess' = s3
                        /\ reasm' = (pk.fid :> fb) @@ reasm
                        /\ pc' = "hang"
                        /\ UNCHANGED <<sent, delivered, saved>>
                   ELSE /\ sess' = s4
                        /\ reasm' = IF r.all # <<>> THEN Erase(reasm, pk.fid)
                                    ELSE (pk.fid :> fb) @@ reasm
                        /\ delivered' = IF r.all # <<>> THEN Append(delivered, r.all)
                                        ELSE delivered
                        /\ sent' = Tx([NewPacket EXCEPT
                                         !.sid = s4.sid_, !.sttl = s4.sttl_ms_,
                                         !.flags = FLAG_ACK,
                                         !.seqnum = pk.seqnum, !.acknum = pk.seqnum,
                                         !.window = s4.local_window_], "ACK-PURE")
                        /\ pc' = "send"
                        /\ UNCHANGED saved
           ELSE /\ sess' = s2
                /\ pc' = "send"
                /\ UNCHANGED <<sent, reasm, delivered, saved>>
  /\ UNCHANGED <<env, resp, now, mode, waiting_dc_ack, batch, args>>

\* time passes while the loop waits in poll
Tick ==
  /\ pc = "poll"
  /\ now < MaxTime
  /\ now' = now + 1
  /\ UNCHANGED <<env, heard, sess, pc, mode, acks, drv, args>>

\* the seqnums the client has used so far in packets it sent
SentSeqs == {sent[i].pkt.seqnum : i \in 1..Len(sent)}

\* the datagrams the central may send into the driver loop
RxPackets ==
  { [NewPacket EXCEPT !.sid = sess.sid_, !.sttl = 900, !.flags = FLAG_ACK,
                      !.seqnum = q, !.acknum = a, !.window = w]
      : q \in {<<0, 7>>}, a \in SentSeqs \cup {Zero32}, w \in {0, LIM} }
  \cup
  { [NewPacket EXCEPT !.sid = sess.sid_, !.sttl = 900, !.flags = FLAG_ACK,
                      !.seqnum = a, !.acknum = a, !.window = LIM]
      : a \in SentSeqs }
  \cup
  { [NewPacket EXCEPT !.sid = sess.sid_, !.sttl = 900, !.flags = f,
                      !.seqnum = <<0, 8>>, !.acknum = Zero32, !.window = LIM,
                      !.fid = 7, !.fo = o, !.data = <<65 + o>>]
      : f \in {0, FLAG_MOREBITS}, o \in {0, 1} }

Next ==
  \/ SendConnect
  \/ SetupTimeout
  \/ SetupShort
  \/ \E setup \in Setups : RecvSetup(setup)
  \/ LoadFail
  \/ Revive
  \/ SendPhase
  \/ \E d \in {0, 1} : TxOne(d)
  \/ Disconnect
  \/ PollTimeout
  \/ rxn < MaxRx /\ RecvShort
  \/ \E pk \in RxPackets, fs \in BOOLEAN : rxn < MaxRx /\ Receive(pk, fs)
  \/ Tick

Spec == Init /\ [][Next]_vars


(*------------------ the Session class driven through its API -----------*)
ApiLens == {0, 80, MAX_PAY + 1}

ApiWindows == {0, 100, MAX_PAY}

\* the setup packets given to establish
ApiSetups ==
  { [NewPacket EXCEPT !.sid = SidA, !.sttl = 500, !.flags = FLAG_ACCEPT,
                      !.seqnum = <<0, 99>>, !.window = w] : w \in ApiWindows }

\* the acknums given to handle_ack: nothing, the head entry, or everything queued
ApiAcknums ==
  {Zero32} \cup {sess.txq_[i].pkt.seqnum : i \in {1, Len(sess.txq_)} \cap DOMAIN sess.txq_}

InitAPI ==
  /\ sess = NewSession
  /\ now = 1
  /\ pc = "api_new"
  /\ mode = "api"
  /\ payload = <<>>
  /\ is_revive = FALSE
  /\ placed = <<>>
  /\ waiting_dc_ack = FALSE
  /\ batch = <<>>
  /\ sent = <<>>
  /\ reasm = <<>>
  /\ delivered = <<>>
  /\ saved = <<>>
  /\ rxn = 0
  /\ acks = 0
  /\ calls = 0
  /\ fstate = NoFile
  /\ inbound = <<>>
  /\ resp = <<>>
  /\ rx = <<>>
  /\ arrived = <<>>
  /\ call = <<>>

\* establish(setup) on the new session
ApiEstablish(setup) ==
  /\ pc = "api_new"
  /\ sess' = establish(sess, setup)
  /\ pc' = "api"
  /\ UNCHANGED <<env, heard, now, mode, acks, drv, args>>

\* queue_data(p, r)
ApiQueueData(p, r) ==
  /\ pc = "api"
  /\ sess' = queue_data(sess, p, r)
  /\ payload' = p
  /\ is_revive' = r
  /\ placed' = Pushed(sess.txq_, sess'.txq_)
  /\ calls' = calls + 1
  /\ UNCHANGED <<env, heard, now, pc, mode, acks, drv>>

\* handle_ack(a, w, t)
ApiHandleAck(a, w, t) ==
  /\ pc = "api"
  /\ sess' = handle_ack(sess, a, w, t)
  /\ acks' = acks + 1
  /\ UNCHANGED <<env, heard, now, pc, mode, drv, args>>

\* ready_to_send(Rto): the batch is returned to the caller
ApiReady ==
  /\ pc = "api"
  /\ batch' = ready_to_send(sess, now, Rto)
  /\ pc' = "api_tx"
  /\ UNCHANGED <<env, heard, sess, now, mode, waiting_dc_ack, sent, reasm, delivered, saved,
                 rxn, acks, args>>

\* the entry ob after the caller sent it at time t
Marked(ob, t) ==
  [ob EXCEPT !.first_sent = IF @ = 0 THEN t ELSE @, !.last_sent = t]

\* the caller transmits every entry of the batch and calls mark_sent
ApiMark ==
  /\ pc = "api_tx"
  /\ sess' = [sess EXCEPT !.txq_ =
                [i \in 1..Len(@) |->
                   IF \E k \in 1..Len(batch) : batch[k] = i THEN Marked(@[i], now)
                   ELSE @[i]]]
  /\ batch' = <<>>
  /\ pc' = "api"
  /\ UNCHANGED <<env, heard, now, mode, waiting_dc_ack, sent, reasm, delivered, saved, rxn,
                 acks, args>>

\* time passes between two calls, while an entry awaits its acknowledgement
ApiTick ==
  /\ pc = "api"
  /\ InFlightCount(sess) > 0
  /\ now < MaxTime
  /\ now' = now + 1
  /\ UNCHANGED <<env, heard, sess, pc, mode, acks, drv, args>>

NextAPI ==
  \/ \E setup \in ApiSetups : ApiEstablish(setup)
  \/ \E L \in ApiLens, r \in BOOLEAN :
       /\ calls < MaxCalls
       /\ r => calls = 0
       /\ L = 0 => r
       /\ L <= MaxFrags * ChunkSize(window_remote_left(sess), MAX_PAY)
       /\ ApiQueueData(Payload(L), r)
  \/ \E a \in ApiAcknums, w \in ApiWindows :
       /\ acks < MaxAcks
       /\ ApiHandleAck(a, w, 900)
  \/ ApiReady
  \/ ApiMark
  \/ ApiTick

SpecAPI == InitAPI /\ [][NextAPI]_vars

(*------------- a long-running session: many queue_data calls -----------*)
\* a payload of more fragments than fo can number
BigLen == Byte * MAX_PAY + 1

InitLong ==
  /\ sess = establish(NewSession,
                      [NewPacket EXCEPT !.sid = SidA, !.sttl = 500,
                                        !.flags = FLAG_ACCEPT,
                                        !.seqnum = <<0, 99>>, !.window = LIM])
  /\ now = 1
  /\ pc = "long"
  /\ mode = "api"
  /\ payload = <<>>
  /\ is_revive = FALSE
  /\ placed = <<>>
  /\ waiting_dc_ack = FALSE
  /\ batch = <<>>
  /\ sent = <<>>
  /\ reasm = <<>>
  /\ delivered = <<>>
  /\ saved = <<>>
  /\ rxn = 0
  /\ acks = 0
  /\ calls = 0
  /\ fstate = NoFile
  /\ inbound = <<>>
  /\ resp = <<>>
  /\ rx = <<>>
  /\ arrived = <<>>
  /\ call = <<>>

\* queue_data(p) on the drained queue
LongQueueData(p) ==
  /\ pc = "long"
  /\ sess.txq_ = <<>>
  /\ calls < MaxFidCalls
  /\ sess' = queue_data(sess, p, FALSE)
  /\ payload' = p
  /\ is_revive' = FALSE
  /\ placed' = Pushed(sess.txq_, sess'.txq_)
  /\ calls' = calls + 1
  /\ UNCHANGED <<env, heard, now, pc, mode, acks, drv>>

\* the central acknowledges everything queued
LongAckAll ==
  /\ pc = "long"
  /\ sess.txq_ # <<>>
  /\ sess' = handle_ack(sess, sess.txq_[Len(sess.txq_)].pkt.seqnum, LIM, 900)
  /\ acks' = acks + 1
  /\ UNCHANGED <<env, heard, now, pc, mode, drv, args>>

NextLong ==
  \/ \E L \in {6, MAX_PAY + 1} :
       /\ L <= MAX_PAY => calls < MaxCalls
       /\ LongQueueData(Payload(L))
  \/ /\ calls = 0
     /\ LongQueueData(Payload(BigLen))
  \/ LongAckAll

SpecLong == InitLong /\ [][NextLong]_vars


(*------------- the driver loop receiving a fragmented payload ----------*)
\* the numbers of fragments of the payloads the central sends
FragCounts == {1, 2, 3, Byte}

\* a payload cut by the central into n one-byte fragments of fid 9
Fragments(n) ==
  [i \in 1..n |->
     [NewPacket EXCEPT !.sid = SidA, !.sttl = 900,
                       !.flags = IF i < n THEN FLAG_MOREBITS ELSE 0,
                       !.seqnum = <<0, 200 + i>>, !.window = LIM,
                       !.fid = 9, !.fo = i - 1, !.data = <<1 + (i % 251)>>]]

\* the arrivals of fragment i so far
Arrivals(i) == Cardinality({j \in 1..Len(arrived) : arrived[j] = inbound[i]})

\* the fragments that arrived at least once
Arrived == {i \in 1..Len(inbound) : Arrivals(i) > 0}

\* the driver loop is entered by a connect run that has nothing to send
InitRx ==
  /\ \E setup \in {x \in Setups : /\ HasFlag(x.flags, FLAG_ACCEPT)
                                  /\ x.seqnum = <<0, 99>> /\ x.window = LIM} :
       /\ sess = note_rx_seq(establish(NewSession, setup), setup.seqnum)
       /\ resp = setup
  /\ now = 1
  /\ pc = "send"
  /\ mode = "connect"
  /\ payload = <<>>
  /\ is_revive = FALSE
  /\ placed = <<>>
  /\ waiting_dc_ack = FALSE
  /\ batch = <<>>
  /\ sent = <<[pkt |-> [NewPacket EXCEPT !.flags = FLAG_CONNECT, !.window = LIM],
               tag |-> "CONNECT"]>>
  /\ reasm = <<>>
  /\ delivered = <<>>
  /\ saved = <<>>
  /\ rxn = 0
  /\ acks = 0
  /\ calls = 0
  /\ fstate = NoFile
  /\ inbound \in {Fragments(n) : n \in FragCounts}
  /\ rx = <<>>
  /\ arrived = <<>>
  /\ call = <<>>

\* the fragments arrive in any order, one of them possibly again, when they
\* are at most MaxPerm; in ascending order when they are more
NextRx ==
  \/ SendPhase
  \/ Disconnect
  \/ \E i \in 1..Len(inbound) :
       /\ IF Len(inbound) <= MaxPerm
          THEN Arrivals(i) = 0 \/ Len(arrived) - Cardinality(Arrived) < MaxDup
          ELSE i = Len(arrived) + 1
       /\ Receive(inbound[i], FALSE)

SpecRx == InitRx /\ [][NextRx]_vars

(*------ the codec and the local window called with chosen arguments ----*)
\* the local_window argument of the Session constructor
LocalWindows == {0, 1, 1000, LIM - 1, LIM}

\* the size_t arguments: 0, 1, 999, 65535, 65536, 2^32 - 1
SizeArgs == {<<0, 0>>, <<0, 1>>, <<0, 999>>, <<0, LIM>>, <<1, 0>>, <<Half - 1, LIM>>}

\* the packets given to serialize
CodecPackets ==
  { [sid |-> SidA, sttl |-> t, flags |-> f, seqnum |-> q, acknum |-> Dec32(q),
     window |-> w, fid |-> 3, fo |-> 254, data |-> Payload(L)]
      : t \in {0, 500, 2 ^ 27 - 1, 2 ^ 27},
        f \in {0, FLAG_ACK, 31, 33},
        q \in {<<0, 100>>, <<4660, 43981>>},
        w \in {LIM - 1},
        L \in {0, 1, MAX_PAY, MAX_PAY + 1} }

\* the lengths a datagram is cut to
CutLens == {0, MIN - 1, MIN, MIN + 1}

\* the bytes that follow a serialized packet in a datagram
Pads == {<<>>, <<7>>}

InitFn ==
  /\ mode \in {"window", "codec"}
  /\ sess \in (IF mode = "window"
               THEN {[NewSession EXCEPT !.local_window_ = lw] : lw \in LocalWindows}
               ELSE {NewSession})
  /\ now = 1
  /\ pc = "fn"
  /\ payload = <<>>
  /\ is_revive = FALSE
  /\ placed = <<>>
  /\ waiting_dc_ack = FALSE
  /\ batch = <<>>
  /\ sent = <<>>
  /\ reasm = <<>>
  /\ delivered = <<>>
  /\ saved = <<>>
  /\ rxn = 0
  /\ acks = 0
  /\ calls = 0
  /\ fstate = NoFile
  /\ inbound = <<>>
  /\ resp = <<>>
  /\ rx = <<>>
  /\ arrived = <<>>
  /\ call = <<>>

\* consume_local_window(n)
CallConsume(n) ==
  /\ pc = "fn" /\ mode = "window"
  /\ sess' = consume_local_window(sess, n)
  /\ call' = [fn |-> "consume_local_window", lw |-> sess.local_window_, n |-> n]
  /\ calls' = calls + 1
  /\ UNCHANGED <<fstate, inbound, heard, now, pc, mode, payload, is_revive, placed,
                 acks, drv>>

\* release_local_window(n)
CallRelease(n) ==
  /\ pc = "fn" /\ mode = "window"
  /\ sess' = release_local_window(sess, n)
  /\ call' = [fn |-> "release_local_window", lw |-> sess.local_window_, n |-> n]
  /\ calls' = calls + 1
  /\ UNCHANGED <<fstate, inbound, heard, now, pc, mode, payload, is_revive, placed,
                 acks, drv>>

\* p.serialize()
CallSerialize(p) ==
  /\ pc = "fn" /\ mode = "codec"
  /\ call' = [fn |-> "serialize", p |-> p, out |-> serialize(p)]
  /\ pc' = "fn_raw"
  /\ UNCHANGED <<fstate, inbound, heard, sess, now, mode, acks, drv, args>>

\* Packet::deserialize(buf, len) on the serialized packet, cut to n bytes when
\* it is longer, and followed by pad
CallDeserialize(n, pad) ==
  /\ pc = "fn_raw" /\ call.out.ok
  /\ LET buf == SubSeq(call.out.raw, 1, Min(n, Len(call.out.raw))) \o pad
     IN call' = [fn |-> "deserialize", p |-> call.p, raw |-> call.out.raw,
                 buf |-> buf, out |-> deserialize(buf)]
  /\ pc' = "fn_end"
  /\ UNCHANGED <<fstate, inbound, heard, sess, now, mode, acks, drv, args>>

NextFn ==
  \/ \E n \in SizeArgs : calls < MaxWinCalls /\ CallConsume(n)
  \/ \E n \in SizeArgs : calls < MaxWinCalls /\ CallRelease(n)
  \/ \E p \in CodecPackets : CallSerialize(p)
  \/ \E n \in CutLens \cup {MIN + MAX_PAY + 1}, pad \in Pads : CallDeserialize(n, pad)

SpecFn == InitFn /\ [][NextFn]_vars

(*------- the driver loop receiving fragments with gaps and strays ------*)
\* a one-byte fragment of fid 9 at offset fo; more: MOREBITS is set
Frag(fo, more) ==
  [NewPacket EXCEPT !.sid = SidA, !.sttl = 900,
                    !.flags = IF more THEN FLAG_MOREBITS ELSE 0,
                    !.seqnum = <<0, 201 + fo>>, !.window = LIM,
                    !.fid = 9, !.fo = fo, !.data = <<2 + fo>>]

\* fragment sets that are not a contiguous range closed by its last
\* fragment: offset 0 missing, offset 1 missing, a fragment beyond the last
GapSets ==
  { <<Frag(1, FALSE), Frag(2, TRUE)>>,
    <<Frag(0, TRUE), Frag(2, FALSE)>>,
    <<Frag(0, TRUE), Frag(1, FALSE), Frag(2, TRUE)>>,
    <<Frag(1, TRUE), Frag(2, FALSE), Frag(3, TRUE)>> }

\* the driver loop is entered by a connect run that has nothing to send
InitGap ==
  /\ \E setup \in {x \in Setups : /\ HasFlag(x.flags, FLAG_ACCEPT)
                                  /\ x.seqnum = <<0, 99>> /\ x.window = LIM} :
       /\ sess = note_rx_seq(establish(NewSession, setup), setup.seqnum)
       /\ resp = setup
  /\ now = 1
  /\ pc = "send"
  /\ mode = "connect"
  /\ payload = <<>>
  /\ is_revive = FALSE
  /\ placed = <<>>
  /\ waiting_dc_ack = FALSE
  /\ batch = <<>>
  /\ sent = <<[pkt |-> [NewPacket EXCEPT !.flags = FLAG_CONNECT, !.window = LIM],
               tag |-> "CONNECT"]>>
  /\ reasm = <<>>
  /\ delivered = <<>>
  /\ saved = <<>>
  /\ rxn = 0
  /\ acks = 0
  /\ calls = 0
  /\ fstate = NoFile
  /\ inbound \in GapSets
  /\ rx = <<>>
  /\ arrived = <<>>
  /\ call = <<>>

SpecGap == InitGap /\ [][NextRx]_vars

(*----- the driver loop with a lossless channel and an answering peer ---*)
\* payload lengths of the runs with an answering peer
LiveLens == {0, 6, MAX_PAY + 1}

\* the windows the answering peer advertises, at least 1440 bytes
LiveWindows == {MAX_PAY, LIM}

\* the SETUP responses of the answering peer
LiveSetups ==
  { [NewPacket EXCEPT !.sid = SidA, !.sttl = 500, !.flags = FLAG_ACCEPT,
                      !.seqnum = <<0, 99>>, !.window = w] : w \in LiveWindows }

\* the packets the peer answers: data packets, first sent or retransmitted,
\* and the disconnect packet
Answerable ==
  SelectSeq(sent, LAMBDA e : e.tag \in {"DATA/FRAG", "REVIVE", "RETX", "DISCONNECT"})

\* the seqnum the peer gives to its answer to p: its own, or that of p
AnswerSeqs(p) == {<<0, 7>>, p.seqnum}

InitLive ==
  /\ sess = NewSession
  /\ now = 1
  /\ pc = "start"
  /\ mode \in {"connect", "revive"}
  /\ payload \in {Payload(L) : L \in LiveLens}
  /\ is_revive = (mode = "revive")
  /\ placed = <<>>
  /\ waiting_dc_ack = FALSE
  /\ batch = <<>>
  /\ sent = <<>>
  /\ reasm = <<>>
  /\ delivered = <<>>
  /\ saved = <<>>
  /\ rxn = 0
  /\ acks = 0
  /\ calls = 0
  /\ fstate \in (IF mode = "revive"
                 THEN {save(r) : r \in SavedStates}
                 ELSE {NoFile})
  /\ inbound = <<>>
  /\ resp = <<>>
  /\ rx = <<>>
  /\ arrived = <<>>
  /\ call = <<>>

\* the peer answers the oldest packet it has not answered yet with an ACK
\* for its seqnum; the answer is in the socket from then on
PeerAnswer ==
  /\ Len(inbound) < Len(Answerable)
  /\ LET p == Answerable[Len(inbound) + 1].pkt
     IN \E q \in AnswerSeqs(p), w \in LiveWindows :
          inbound' = Append(inbound,
                            [NewPacket EXCEPT !.sid = p.sid, !.sttl = 900,
                                              !.flags = FLAG_ACK,
                                              !.seqnum = q, !.acknum = p.seqnum,
                                              !.window = w])
  /\ UNCHANGED <<fstate, call, heard, sess, now, pc, mode, acks, drv, args>>

\* poll returns the oldest datagram in the socket
LiveReceive ==
  /\ Len(arrived) < Len(inbound)
  /\ \E fs \in BOOLEAN : Receive(inbound[Len(arrived) + 1], fs)

\* poll times out on an empty socket
LivePollTimeout ==
  /\ Len(arrived) = Len(inbound)
  /\ PollTimeout

\* the steps of the client
ClientStep ==
  \/ SendConnect
  \/ \E setup \in LiveSetups : RecvSetup(setup)
  \/ Revive
  \/ SendPhase
  \/ \E d \in {0, 1} : TxOne(d)
  \/ Disconnect
  \/ LivePollTimeout
  \/ LiveReceive

NextLive ==
  \/ ClientStep
  \/ PeerAnswer
  \/ Tick

\* the client keeps running and the peer answers every packet
SpecLive ==
  InitLive /\ [][NextLive]_vars /\ WF_vars(ClientStep) /\ WF_vars(PeerAnswer)

(*======================== the claims, C1 to C10 ========================*)
RECURSIVE ConcatRange(_, _, _)
\* the data of the packets lo..hi of pkts, concatenated in order (taken by
\* halves: hundreds of packets are concatenated at a shallow depth)
ConcatRange(pkts, lo, hi) ==
  IF lo > hi THEN <<>>
  ELSE IF lo = hi THEN pkts[lo].data
  ELSE ConcatRange(pkts, lo, (lo + hi) \div 2)
         \o ConcatRange(pkts, (lo + hi) \div 2 + 1, hi)

\* the data of the packets of pkts, concatenated in order
ConcatData(pkts) == ConcatRange(pkts, 1, Len(pkts))

\* the indices a batch holds
InBatch(i) == \E k \in 1..Len(batch) : batch[k] = i

\* max(0, remote_window - in-flight bytes) in the current state
LeftNow ==
  IF sess.window_remote_ - InFlight(sess) > 0
  THEN sess.window_remote_ - InFlight(sess) ELSE 0

IsRevive(i) == HasFlag(sess.txq_[i].pkt.flags, FLAG_REVIVE)

DataLen(i) == Len(sess.txq_[i].pkt.data)

\* entry i was never sent, or more than Rto has passed since it was last sent
Eligible(i) ==
  sess.txq_[i].first_sent = 0 \/ now - sess.txq_[i].last_sent > Rto

RECURSIVE SumBatch(_)
\* the sum of |data| over the batch from its k-th element on
SumBatch(k) ==
  IF k > Len(batch) THEN 0 ELSE DataLen(batch[k]) + SumBatch(k + 1)

RECURSIVE FitsFrom(_, _)
\* every non-REVIVE entry of the batch from the k-th on fits the bytes
\* left when it is reached
FitsFrom(k, left) ==
  IF k > Len(batch) THEN TRUE
  ELSE IF IsRevive(batch[k]) THEN FitsFrom(k + 1, left)
       ELSE DataLen(batch[k]) <= left /\ FitsFrom(k + 1, left - DataLen(batch[k]))

EligibleData(i) == Eligible(i) /\ ~IsRevive(i)

RECURSIVE SumAllUpTo(_)
\* the sum of |data| over the queued entries 1..i
SumAllUpTo(i) == IF i = 0 THEN 0 ELSE DataLen(i) + SumAllUpTo(i - 1)

RECURSIVE SumEligibleUpTo(_)
\* the sum of |data| over the eligible data entries among 1..i
SumEligibleUpTo(i) ==
  IF i = 0 THEN 0
  ELSE (IF EligibleData(i) THEN DataLen(i) ELSE 0) + SumEligibleUpTo(i - 1)

\* queue_data has been called and the driver loop was entered
Queued == pc \in {"send", "tx", "dc", "poll", "done"}

\* C1: in the connect flow and in the revive flow the data of the packets
\* queue_data placed in the transmit queue, concatenated in seqnum order, is
\* the whole payload; so the whole payload was enqueued when the disconnect
\* packet is sent.
C1_WholePayloadQueued ==
  (Queued \/ waiting_dc_ack) => ConcatData(placed) = payload

\* C2: after handle_ack(a, w, s) returned, no entry left in the transmit
\* queue has seqnum <= a.
C2_NoAckedEntryLeft ==
  acks > 0 =>
    \A i \in 1..Len(sess.txq_) :
      ~Le32(sess.txq_[i].pkt.seqnum, sess.last_ack_rcvd_)

\* C3: a batch returned by ready_to_send on a queue without REVIVE entry
\* carries at most remote-window-left bytes (hence at most remote_window),
\* and no non-REVIVE entry is returned that exceeds the bytes left when the
\* walk reaches it.
C3_BatchWithinWindow ==
  pc = "api_tx" =>
    /\ (\A i \in 1..Len(sess.txq_) : ~IsRevive(i)) =>
         /\ SumBatch(1) <= LeftNow
         /\ SumBatch(1) <= sess.window_remote_
    /\ FitsFrom(1, LeftNow)

\* C3's case: a batch of two entries, a third one withheld by the window
C3_Witness ==
  /\ pc = "api_tx"
  /\ \A i \in 1..Len(sess.txq_) : ~IsRevive(i)
  /\ Len(batch) >= 2
  /\ \E i \in 1..Len(sess.txq_) : sess.txq_[i].first_sent = 0 /\ ~InBatch(i)

\* the window admits entry i whatever is admitted before it
NeverBlocked(i) == SumAllUpTo(i) <= LeftNow

\* C4 as claimed: an entry last sent at t0 that the window does not block is
\* returned by ready_to_send(rto) at time t whenever t >= t0 + rto, and is
\* not returned whenever t < t0 + rto.
C4_ReturnedFromRto ==
  pc = "api_tx" =>
    \A i \in 1..Len(sess.txq_) :
      (sess.txq_[i].last_sent # 0 /\ NeverBlocked(i)) =>
        /\ now >= sess.txq_[i].last_sent + Rto => InBatch(i)
        /\ now < sess.txq_[i].last_sent + Rto => ~InBatch(i)

\* C4 amended: such an entry is returned whenever t > t0 + rto and is not
\* returned whenever t <= t0 + rto.
C4_ReturnedAfterRto ==
  pc = "api_tx" =>
    \A i \in 1..Len(sess.txq_) :
      (sess.txq_[i].last_sent # 0 /\ NeverBlocked(i)) =>
        /\ now > sess.txq_[i].last_sent + Rto => InBatch(i)
        /\ now <= sess.txq_[i].last_sent + Rto => ~InBatch(i)

\* C4's cases: a sent entry returned after the timeout, and one withheld at
\* exactly t0 + rto
C4_Witness ==
  /\ pc = "api_tx"
  /\ \E i \in 1..Len(sess.txq_) :
       /\ sess.txq_[i].last_sent # 0 /\ NeverBlocked(i)
       /\ now > sess.txq_[i].last_sent + Rto /\ InBatch(i)
  /\ \E j \in 1..Len(sess.txq_) :
       /\ sess.txq_[j].last_sent # 0 /\ NeverBlocked(j)
       /\ now = sess.txq_[j].last_sent + Rto /\ ~InBatch(j)

\* C5: a data packet that was admitted and transmitted, for which no ACK
\* arrived (so the window is the one it was admitted under), is returned by
\* the ready_to_send call the loop makes once more than rto has passed since
\* its last transmission.
C5_UnackedIsRetransmitted ==
  (pc = "send" /\ acks = 0) =>
    \A i \in 1..Len(sess.txq_) :
      (sess.txq_[i].last_sent # 0 /\ ~IsRevive(i)
         /\ now - sess.txq_[i].last_sent > Rto) =>
        \E k \in 1..Len(ready_to_send(sess, now, Rto)) :
          ready_to_send(sess, now, Rto)[k] = i

\* C6: an eligible REVIVE entry at the head of the queue is returned
\* whatever the remote window and the in-flight bytes; its data is not
\* deducted, so an eligible data entry after it is returned whenever the
\* eligible data entries up to it fit the bytes left together; with window
\* 100, a header-only REVIVE entry and two 80-byte entries, the batch is the
\* REVIVE entry and the first 80-byte entry.
C6_ReviveBypass ==
  (pc = "api_tx" /\ sess.txq_ # <<>> /\ IsRevive(1) /\ Eligible(1)) =>
    /\ batch # <<>> /\ batch[1] = 1
    /\ \A i \in 2..Len(sess.txq_) :
         (EligibleData(i) /\ SumEligibleUpTo(i) <= LeftNow) => InBatch(i)
    /\ (/\ sess.window_remote_ = 100 /\ Len(sess.txq_) = 3
        /\ DataLen(1) = 0 /\ DataLen(2) = 80 /\ DataLen(3) = 80
        /\ \A i \in 1..3 : sess.txq_[i].first_sent = 0)
       => batch = <<1, 2>>

\* C6's case: window 100, a header-only REVIVE entry, two 80-byte entries
C6_Witness ==
  /\ pc = "api_tx" /\ Len(sess.txq_) = 3 /\ IsRevive(1)
  /\ sess.window_remote_ = 100
  /\ DataLen(1) = 0 /\ DataLen(2) = 80 /\ DataLen(3) = 80
  /\ batch = <<1, 2>>

\* ceil(a / b)
CeilDiv(a, b) == (a + b - 1) \div b

\* MOREBITS is set on all packets of pkts but the last
MoreBitsPattern(pkts) ==
  \A i \in 1..Len(pkts) : HasFlag(pkts[i].flags, FLAG_MOREBITS) <=> (i < Len(pkts))

\* C7: a payload of L > 1440 bytes enqueued with no in-flight bytes and a
\* remote window of at least 1440 gives exactly ceil(L / 1440) packets of one
\* non-zero fid, with fo = 0, 1, 2, ... in queue order without repetition,
\* MOREBITS on all but the last, whose data concatenated is the payload.
C7_Fragmentation ==
  (calls > 0 /\ Len(payload) > MAX_PAY /\ InFlight(sess) = 0
     /\ sess.window_remote_ >= MAX_PAY) =>
    /\ Len(placed) = CeilDiv(Len(payload), MAX_PAY)
    /\ \A i \in 1..Len(placed) :
         /\ placed[i].fid = placed[1].fid
         /\ placed[i].fid # 0
         /\ placed[i].fo = i - 1
    /\ MoreBitsPattern(placed)
    /\ ConcatData(placed) = payload

\* C8: queue_data (is_revive false) enqueues a non-empty payload of at most
\* 1440 bytes, whatever the remote window, as exactly one packet with
\* fid = 0, fo = 0, flags = ACK and the whole payload as data.
C8_SinglePacket ==
  (calls > 0 /\ ~is_revive /\ payload # <<>> /\ Len(payload) <= MAX_PAY) =>
    /\ Len(placed) = 1
    /\ placed[1].fid = 0 /\ placed[1].fo = 0
    /\ placed[1].flags = FLAG_ACK
    /\ placed[1].data = payload

\* C9: among the packets a queue_data call placed in the queue, the last has
\* MOREBITS clear and every earlier one has MOREBITS set.
C9_LastHasNoMoreBits ==
  (calls > 0 /\ placed # <<>>) => MoreBitsPattern(placed)

\* C10: every packet of a payload longer than 1440 bytes carries one and the
\* same non-zero fid, every packet of a payload of at most 1440 bytes carries
\* fid 0, and fid 0 is never given to a multi-fragment payload.
C10_FidDiscipline ==
  calls > 0 =>
    \A i \in 1..Len(placed) :
      IF Len(payload) > MAX_PAY
      THEN placed[i].fid = placed[1].fid /\ placed[i].fid # 0
      ELSE placed[i].fid = 0

(*======================== the claims, C11 to C20 =======================*)
\* the disconnect packet: the only packet with both CONNECT and REVIVE
IsDisconnect(p) == HasFlag(p.flags, FLAG_CONNECT) /\ HasFlag(p.flags, FLAG_REVIVE)

\* the positions of sent that hold a disconnect packet
DcSent == {i \in 1..Len(sent) : IsDisconnect(sent[i].pkt)}

\* the seqnum taken for the disconnect packet
DcSeq == sent[CHOOSE i \in DcSent : TRUE].pkt.seqnum

\* the seqnums the session took for the packets it sent
TakenSeqs ==
  {sent[i].pkt.seqnum :
     i \in {j \in 1..Len(sent) : sent[j].tag \notin {"CONNECT", "ACK-PURE"}}}

\* x < y on uint32_t
Lt32(x, y) == Le32(x, y) /\ x # y

\* a pure ACK: the ACK flag alone and no data
IsPureAck(p) == p.flags = FLAG_ACK /\ p.data = <<>>

\* the step decodes a datagram received in the driver loop
Decoded == rxn' = rxn + 1 /\ rx' # <<>>

\* C11: the driver loop ends on an inbound packet if and only if the
\* disconnect packet has been sent, the inbound packet has the ACK flag and
\* its seqnum is the seqnum that was taken for the disconnect packet.
C11_DcAckBySeqnum ==
  [][Decoded =>
       ((pc' = "done") <=>
          (/\ waiting_dc_ack
           /\ HasFlag(rx'.flags, FLAG_ACK)
           /\ rx'.seqnum = DcSeq))]_vars

\* C12: the disconnect packet (flags CONNECT|REVIVE|ACK, a freshly taken
\* seqnum, acknum = last_rx_seq, window 0, no data) is transmitted only when
\* the transmit queue is empty, at most once in a session, and is never
\* placed in the transmit queue.
C12_DisconnectOnce ==
  /\ [](/\ Cardinality(DcSent) <= 1
        /\ (waiting_dc_ack <=> DcSent # {})
        /\ \A i \in 1..Len(sess.txq_) : ~IsDisconnect(sess.txq_[i].pkt))
  /\ [][(Len(sent') > Len(sent) /\ IsDisconnect(sent'[Len(sent')].pkt)) =>
          LET d == sent'[Len(sent')].pkt
          IN /\ sess.txq_ = <<>> /\ sess'.txq_ = <<>>
             /\ d.flags = FLAG_CONNECT + FLAG_REVIVE + FLAG_ACK
             /\ d.seqnum = sess.next_seq_
             /\ sess'.next_seq_ = Inc32(sess.next_seq_)
             /\ d.acknum = sess.last_rx_seq_
             /\ d.window = 0 /\ d.data = <<>>]_vars

\* C12's case: the loop is back at the disconnect step after the disconnect
\* packet was sent and a datagram was handled
C12_Witness ==
  /\ pc = "dc" /\ waiting_dc_ack /\ Cardinality(DcSent) = 1
  /\ rx # <<>> /\ ~IsDisconnect(sent[Len(sent)].pkt)

\* C13: a record is written only after the acknowledgement of the
\* disconnect packet was received; it holds the session sid, the latest
\* sttl, next_seq = the disconnect seqnum + 1, greater than every seqnum the
\* session used, and last_ack = last_rx_seq; no record is written by a run
\* that aborts.
C13_SavedAfterDcAck ==
  /\ saved # <<>> =>
       /\ pc = "done" /\ waiting_dc_ack /\ rx # <<>>
       /\ HasFlag(rx.flags, FLAG_ACK) /\ rx.seqnum = DcSeq
       /\ saved.sid = sess.sid_ /\ saved.sttl = sess.sttl_ms_
       /\ saved.next_seq = Inc32(DcSeq)
       /\ saved.last_ack = sess.last_rx_seq_
       /\ \A q \in TakenSeqs : Lt32(q, saved.next_seq)
  /\ pc \in {"abort", "crash", "hang"} => saved = <<>>

\* C14: in the revive flow with a payload of at most 1440 bytes the first
\* packet transmitted has the sid, next_seq and last_ack of the record as
\* sid, seqnum and acknum, the flags REVIVE and ACK, the payload as data (a
\* header-only REVIVE|ACK packet for the empty payload), and it is
\* transmitted while the remote window is 0.
C14_FirstRevivePacket ==
  (mode = "revive" /\ load(fstate).ok /\ Len(payload) <= MAX_PAY) =>
    /\ pc \in {"dc", "poll", "done", "crash", "hang"} => sent # <<>>
    /\ (Len(sent) = 1 /\ rxn = 0) => sess.window_remote_ = 0
    /\ sent # <<>> =>
         /\ sent[1].pkt.sid = load(fstate).sd.sid
         /\ sent[1].pkt.seqnum = load(fstate).sd.next_seq
         /\ sent[1].pkt.acknum = load(fstate).sd.last_ack
         /\ HasFlag(sent[1].pkt.flags, FLAG_REVIVE)
         /\ HasFlag(sent[1].pkt.flags, FLAG_ACK)
         /\ sent[1].pkt.data = payload
         /\ payload = <<>> => sent[1].pkt.flags = FLAG_REVIVE + FLAG_ACK

\* C14's case: a whole record, a 6-byte payload, the REVIVE packet sent under
\* window 0 and nothing received yet
C14_Witness ==
  /\ mode = "revive" /\ fstate.exists /\ fstate.len = 28
  /\ Len(payload) = 6 /\ Len(sent) = 1 /\ rxn = 0 /\ pc = "dc"
  /\ sess.window_remote_ = 0
  /\ sent[1].pkt.data = payload

\* C15: a datagram received in the driver loop that cannot be decoded is
\* dropped: the session and waiting_dc_ack are unchanged and the loop goes on
\* with its next iteration.
C15_ShortDatagramDropped ==
  [][(rxn' = rxn + 1 /\ ~Decoded) =>
       (pc' = "send" /\ sess' = sess /\ waiting_dc_ack' = waiting_dc_ack)]_vars

\* C16: run_revive aborts without establishing a session or sending a
\* packet when the state file is missing or holds fewer than 28 bytes.
C16_ShortFileIsFatal ==
  (mode = "revive" /\ (~fstate.exists \/ fstate.len < 28)) =>
    (pc \in {"start", "abort"} /\ sent = <<>> /\ sess = NewSession)

\* the CONNECT packet of run_connect
ConnectPacket == [NewPacket EXCEPT !.flags = FLAG_CONNECT, !.window = LIM]

\* the response to CONNECT was decoded and carries ACCEPT
Accepted == resp # <<>> /\ HasFlag(resp.flags, FLAG_ACCEPT)

\* C17: the connect flow sends exactly one CONNECT packet (header-only, sid
\* zero, window 65535); it establishes the session, enqueues the payload and
\* transmits anything else only if the response carries ACCEPT; on a receive
\* timeout or a response without ACCEPT it aborts having sent nothing but
\* the CONNECT packet.
C17_HandshakeGate ==
  mode = "connect" =>
    /\ pc = "start" => sent = <<>>
    /\ pc # "start" =>
         /\ sent # <<>> /\ sent[1].pkt = ConnectPacket
         /\ \A i \in 2..Len(sent) : sent[i].pkt.flags # FLAG_CONNECT
    /\ (sess # NewSession \/ placed # <<>> \/ Len(sent) > 1) => Accepted
    /\ (resp # <<>> /\ ~Accepted) => pc = "abort"
    /\ pc = "abort" => (~Accepted /\ Len(sent) = 1 /\ sess = NewSession)

\* C17's case: the response without ACCEPT was received
C17_Witness ==
  /\ mode = "connect" /\ resp # <<>> /\ ~HasFlag(resp.flags, FLAG_ACCEPT)
  /\ pc = "abort" /\ Len(sent) = 1

\* every fragment arrived at most once
NoDup == Len(arrived) = Cardinality(Arrived)

\* C18: whatever the order in which the fragments fo = 0..k of a payload
\* arrive, nothing is delivered before the last missing fragment arrives,
\* and at its arrival exactly one payload is delivered, the concatenation of
\* the fragments in ascending fo, and the bucket is dropped.
C18_DeliveredOnce ==
  (inbound # <<>> /\ NoDup) =>
    IF Cardinality(Arrived) = Len(inbound)
    THEN /\ Len(delivered) = 1 /\ delivered[1] = ConcatData(inbound)
         /\ inbound[1].fid \notin DOMAIN reasm
    ELSE delivered = <<>>

\* C19: a fragment received more than once does not change what is
\* delivered: the payload, once, when every fragment arrived.
C19_DuplicatesIdempotent ==
  (inbound # <<>> /\ pc # "hang") =>
    delivered = IF Cardinality(Arrived) = Len(inbound)
                THEN <<ConcatData(inbound)>> ELSE <<>>

\* C20: for a received packet with data after which the loop goes on, one
\* pure ACK is transmitted before the next receive, with flags = ACK,
\* seqnum = acknum = the packet's seqnum, no data and window = the local
\* window left after the reassembly step; a header-only packet and a step
\* that receives nothing transmit no pure ACK.
C20_PureAck ==
  [][/\ Decoded =>
          LET pk == rx'
              n == Len(pk.data)
              left == IF n > sess.local_window_ THEN 0 ELSE sess.local_window_ - n
              got == IF delivered' # delivered
                     THEN Len(delivered'[Len(delivered')]) ELSE 0
          IN IF pk.data # <<>> /\ pc' = "send"
             THEN /\ Len(sent') = Len(sent) + 1
                  /\ SubSeq(sent', 1, Len(sent)) = sent
                  /\ sent'[Len(sent')].pkt.flags = FLAG_ACK
                  /\ sent'[Len(sent')].pkt.seqnum = pk.seqnum
                  /\ sent'[Len(sent')].pkt.acknum = pk.seqnum
                  /\ sent'[Len(sent')].pkt.data = <<>>
                  /\ sent'[Len(sent')].pkt.window = Min(LIM, left + got)
             ELSE pk.data = <<>> => sent' = sent
     /\ (~Decoded /\ Len(sent') > Len(sent)) =>
          ~IsPureAck(sent'[Len(sent')].pkt)]_vars

\* C20's case: the fragment that completes a payload was acknowledged by a
\* pure ACK advertising the whole local window again
C20_Witness ==
  /\ pc = "send" /\ rx # <<>> /\ rx.data # <<>>
  /\ delivered # <<>>
  /\ IsPureAck(sent[Len(sent)].pkt)
  /\ sent[Len(sent)].pkt.seqnum = rx.seqnum
  /\ sent[Len(sent)].pkt.window = LIM

(*======================== the claims, C21 to C30 =======================*)
\* the step hands one more packet to send()
Transmits == Len(sent') = Len(sent) + 1

\* the packet the step hands to send(), with its tag
Out == sent'[Len(sent')]

\* C21: every packet transmitted after establishment (a pure ACK, the
\* disconnect packet, a queued packet at its first or a later transmission)
\* carries the sttl most recently received from the central, which is the
\* copy the session holds when the packet is handed to send().
C21_EchoesLatestSttl ==
  [][(Transmits /\ Out.tag # "CONNECT") => Out.pkt.sttl = sess'.sttl_ms_]_vars

\* the session is established and the driver loop runs
InLoop == pc \in {"send", "tx", "dc", "poll"}

\* C22: next_seq strictly increases over the life of a session; a pure ACK
\* and the disconnect packet carry the value of next_seq their step
\* consumes, a queued packet a value consumed before; and no two distinct
\* packets transmitted after establishment share a seqnum.
C22_SeqConsumed ==
  /\ [](\A i, j \in 1..Len(sent) :
          (/\ sent[i].tag # "CONNECT" /\ sent[j].tag # "CONNECT"
           /\ sent[i].pkt # sent[j].pkt)
            => sent[i].pkt.seqnum # sent[j].pkt.seqnum)
  /\ [][/\ (InLoop /\ sess'.next_seq_ # sess.next_seq_)
             => Lt32(sess.next_seq_, sess'.next_seq_)
        /\ (Transmits /\ Out.tag \in {"ACK-PURE", "DISCONNECT"})
             => /\ Out.pkt.seqnum = sess.next_seq_
                /\ sess'.next_seq_ = Inc32(sess.next_seq_)
        /\ (Transmits /\ Out.tag \in {"DATA/FRAG", "REVIVE", "RETX"})
             => Lt32(Out.pkt.seqnum, sess'.next_seq_)]_vars

\* the latest call was a call of fn
Called(fn) == call # <<>> /\ call.fn = fn

\* C23: for every local window lw in 0..65535 and every n >= 0,
\* consume_local_window(n) leaves max(0, lw - n) and release_local_window(n)
\* leaves min(65535, lw + n); the local window stays in 0..65535.
C23_WindowClamps ==
  /\ sess.local_window_ \in 0..LIM
  /\ Called("consume_local_window") =>
       sess.local_window_ =
         IF call.n[1] > 0 \/ call.n[2] >= call.lw THEN 0 ELSE call.lw - call.n[2]
  /\ Called("release_local_window") =>
       sess.local_window_ =
         IF call.n[1] > 0 \/ call.lw + call.n[2] >= LIM THEN LIM
         ELSE call.lw + call.n[2]

\* flags is a 5-bit value and sttl a 27-bit value
InRange(p) == p.flags \in 0..31 /\ p.sttl \in 0..(2 ^ 27 - 1)

\* C24: for every packet p with flags in 0..31, sttl in 0..2^27 - 1 and at
\* most 1440 bytes of data, serialize(p) has 32 + |data| bytes and
\* deserialize(serialize(p)) equals p field by field.
C24_RoundTrip ==
  /\ (Called("serialize") /\ InRange(call.p) /\ Len(call.p.data) <= MAX_PAY) =>
       call.out.ok /\ Len(call.out.raw) = 32 + Len(call.p.data)
  /\ (Called("deserialize") /\ InRange(call.p) /\ call.buf = call.raw) =>
       /\ call.out.ok
       /\ \A f \in DOMAIN call.p : call.out.p[f] = call.p[f]
       /\ DOMAIN call.out.p = DOMAIN call.p

\* C24's case: the packet with every flag, the largest sttl and 1440 bytes
\* of data went through serialize and deserialize
C24_Witness ==
  /\ Called("deserialize") /\ call.buf = call.raw
  /\ call.p.flags = 31 /\ call.p.sttl = 2 ^ 27 - 1 /\ Len(call.p.data) = MAX_PAY
  /\ call.out.ok /\ call.out.p = call.p

\* the little-endian bytes of the 32-bit word (sttl << 5) | flags
WordBytes(sttl, flags) ==
  <<(sttl % 8) * 32 + flags, (sttl \div 8) % Byte,
    (sttl \div (2 ^ 11)) % Byte, (sttl \div (2 ^ 19)) % Byte>>

\* C25: for flags in 0..31 and sttl in 0..2^27 - 1, bytes 16..20 of
\* serialize(p) are the little-endian encoding of (sttl << 5) | flags;
\* deserialize takes flags from the low 5 bits and sttl from the high 27
\* bits of the word in those bytes.
C25_BitPacking ==
  /\ (Called("serialize") /\ call.out.ok /\ InRange(call.p)) =>
       SubSeq(call.out.raw, 17, 20) = WordBytes(call.p.sttl, call.p.flags)
  /\ (Called("deserialize") /\ call.out.ok) =>
       /\ call.out.p.flags = call.buf[17] % 32
       /\ call.out.p.sttl = (call.buf[17] \div 32) + call.buf[18] * 8
                              + call.buf[19] * (2 ^ 11) + call.buf[20] * (2 ^ 19)

\* C25's case: sttl = 500 and flags = ACK give the word 16004, and are
\* recovered from it
C25_Witness ==
  /\ Called("deserialize") /\ call.out.ok
  /\ call.p.sttl = 500 /\ call.p.flags = FLAG_ACK
  /\ SubSeq(call.buf, 17, 20) = <<132, 62, 0, 0>>
  /\ call.out.p.sttl = 500 /\ call.out.p.flags = FLAG_ACK

\* C26: serialize fails exactly when the data is longer than 1440 bytes;
\* deserialize fails exactly when the input is shorter than 32 bytes, and
\* otherwise takes every byte after the 32-byte header as the data.
C26_CodecErrors ==
  /\ Called("serialize") => (call.out.ok <=> Len(call.p.data) <= 1440)
  /\ Called("deserialize") =>
       /\ call.out.ok <=> Len(call.buf) >= 32
       /\ call.out.ok =>
            /\ Len(call.out.p.data) = Len(call.buf) - 32
            /\ \A i \in 1..Len(call.out.p.data) : call.out.p.data[i] = call.buf[32 + i]

\* C26's case: a datagram of 31 bytes was refused
C26_Witness ==
  /\ Called("deserialize") /\ Len(call.buf) = 31 /\ ~call.out.ok

\* C27: in a batch returned by ready_to_send, no entry is returned after an
\* eligible non-REVIVE entry that was not returned, even one that would fit
\* the bytes left; an entry passed over because it is in flight and not
\* timed out does not end the walk: an eligible entry is returned when every
\* eligible entry before it was returned and it fits the bytes left.
C27_HeadOfLineBlocking ==
  pc = "api_tx" =>
    /\ \A i \in 1..Len(sess.txq_) :
         (EligibleData(i) /\ ~InBatch(i)) =>
           \A j \in (i + 1)..Len(sess.txq_) : ~InBatch(j)
    /\ \A j \in 1..Len(sess.txq_) :
         (/\ Eligible(j)
          /\ \A i \in 1..(j - 1) : Eligible(i) => InBatch(i)
          /\ IsRevive(j) \/ SumEligibleUpTo(j) <= LeftNow)
           => InBatch(j)

\* C27's case: an entry in flight passed over, the entry after it returned,
\* the next one withheld by the window, and a last one that fits the bytes
\* left and is not returned
C27_Witness ==
  /\ pc = "api_tx" /\ Len(sess.txq_) = 4
  /\ ~Eligible(1) /\ InBatch(2)
  /\ EligibleData(3) /\ ~InBatch(3)
  /\ EligibleData(4) /\ ~InBatch(4)
  /\ DataLen(4) <= LeftNow - SumBatch(1)

\* the positions of sent that hold the first transmission of a queued entry
FirstTx == {i \in 1..Len(sent) : sent[i].tag \in {"DATA/FRAG", "REVIVE"}}

\* C28: a batch returned by ready_to_send lists its entries in strictly
\* increasing seqnum order; first transmissions follow one another in
\* increasing seqnum order, and a queued entry is not transmitted while an
\* entry with a smaller seqnum waits for its first transmission.
C28_FifoOrder ==
  /\ \A k \in 1..(Len(batch) - 1) :
       Lt32(sess.txq_[batch[k]].pkt.seqnum, sess.txq_[batch[k + 1]].pkt.seqnum)
  /\ \A i, j \in FirstTx :
       i < j => Lt32(sent[i].pkt.seqnum, sent[j].pkt.seqnum)
  /\ \A a, b \in 1..Len(sess.txq_) :
       (/\ Lt32(sess.txq_[a].pkt.seqnum, sess.txq_[b].pkt.seqnum)
        /\ sess.txq_[b].first_sent # 0)
         => sess.txq_[a].first_sent # 0

\* C29: for every entry of the transmit queue, first_sent is zero exactly
\* when last_sent is zero and first_sent <= last_sent; from one state of the
\* driver loop to the next, a first_sent that is set does not change and
\* last_sent does not decrease (so neither goes back to zero).
C29_Timestamps ==
  /\ [](\A i \in 1..Len(sess.txq_) :
          /\ sess.txq_[i].first_sent = 0 <=> sess.txq_[i].last_sent = 0
          /\ sess.txq_[i].first_sent <= sess.txq_[i].last_sent)
  /\ [][\A i \in 1..Len(sess.txq_), j \in 1..Len(sess'.txq_) :
          sess.txq_[i].pkt = sess'.txq_[j].pkt =>
            /\ sess.txq_[i].first_sent # 0 =>
                 sess'.txq_[j].first_sent = sess.txq_[i].first_sent
            /\ sess'.txq_[j].last_sent >= sess.txq_[i].last_sent]_vars

\* C29's case: an entry was transmitted a second time, later than the first
C29_Witness ==
  /\ sent # <<>> /\ sent[Len(sent)].tag = "RETX"
  /\ \E i \in 1..Len(sess.txq_) :
       /\ sess.txq_[i].pkt = sent[Len(sent)].pkt
       /\ sess.txq_[i].first_sent # 0
       /\ sess.txq_[i].first_sent < sess.txq_[i].last_sent

\* the entries of q with seqnum > a, in the order of q
Above(q, a) == SelectSeq(q, LAMBDA e : ~Le32(e.pkt.seqnum, a))

\* C30: handle_ack(a, w, s), called for a received packet with the ACK flag,
\* leaves in the queue exactly the entries with seqnum > a, in their order,
\* with packet and timestamps unchanged; next_seq, last_rx_seq (as
\* note_rx_seq left it) and the local window are unchanged.
C30_AckRemovesExactly ==
  [][(Decoded /\ HasFlag(rx'.flags, FLAG_ACK)) =>
       /\ sess'.txq_ = Above(sess.txq_, rx'.acknum)
       /\ sess'.next_seq_ = sess.next_seq_
       /\ sess'.last_rx_seq_ =
            (IF rx'.seqnum # Zero32 THEN rx'.seqnum ELSE sess.last_rx_seq_)
       /\ sess'.local_window_ = sess.local_window_]_vars

(*------------------------ the claims, C31 to C40 -----------------------*)
\* the bytes stored in the parts lo..hi of a bucket, by halves
RECURSIVE BytesIn(_, _, _)
BytesIn(parts, lo, hi) ==
  IF lo > hi THEN 0
  ELSE IF lo = hi THEN Len(PartAt(parts, lo))
  ELSE LET mid == (lo + hi) \div 2
       IN BytesIn(parts, lo, mid) + BytesIn(parts, mid + 1, hi)

\* the data bytes held in the buckets of the fids in F
RECURSIVE HeldIn(_)
HeldIn(F) ==
  IF F = {} THEN 0
  ELSE LET k == CHOOSE x \in F : TRUE
       IN BytesIn(reasm[k].parts, 0, Byte - 1) + HeldIn(F \ {k})

\* the data bytes held in incomplete reassembly buckets
HeldBytes == HeldIn(DOMAIN reasm)

\* C31: in every state of the driver loop the local window is 65535 minus
\* the data bytes held in the reassembly buckets, so it is back at 65535
\* when no bucket is pending
C31_WindowBalances ==
  InLoop => sess.local_window_ = LIM - HeldBytes

\* the seqnums of the packets received from the central so far in a run
\* whose inbound packets are all recorded in arrived
PeerSeqs ==
  (IF resp # <<>> THEN {resp.seqnum} ELSE {})
  \cup {arrived[j].seqnum : j \in 1..Len(arrived)}
  \cup (IF rx # <<>> THEN {rx.seqnum} ELSE {})

\* the highest peer seqnum received so far
Highest == CHOOSE x \in PeerSeqs : \A y \in PeerSeqs : Le32(y, x)

\* C32: every packet transmitted with the ACK flag (queued data packets when
\* they are sent, the disconnect packet, pure ACKs) carries as acknum the
\* highest peer seqnum received so far
C32_AcknumIsHighest ==
  [][(Transmits /\ HasFlag(Out.pkt.flags, FLAG_ACK)) => Out.pkt.acknum = Highest']_vars

\* x + n modulo 2^32
RECURSIVE Plus32(_, _)
Plus32(x, n) == IF n = 0 THEN x ELSE Plus32(Inc32(x), n - 1)

\* the packet establish was called with: the SETUP response of a connect
\* run, the placeholder of a revive run
SetupPkt ==
  IF mode = "connect" THEN resp
  ELSE LET sd == load(fstate).sd
       IN [NewPacket EXCEPT !.sid = sd.sid, !.sttl = sd.sttl,
                            !.seqnum = Dec32(sd.next_seq),
                            !.acknum = sd.last_ack,
                            !.window = 0]

\* establish has been called
Established ==
  \/ mode = "connect" /\ Accepted /\ pc \notin {"hs", "abort"}
  \/ mode = "revive" /\ pc \notin {"start", "abort"}

\* C33: after establish(setup) the packets enqueued by queue_data carry the
\* consecutive seqnums setup.seqnum + 1, + 2, .. modulo 2^32, the disconnect
\* packet carries the seqnum after the last enqueued one, and until an ACK
\* is handled the sid, sttl, remote window and last_ack_received of the
\* session are those of the setup packet (the sid for the whole run)
C33_SeqnumsFromSetup ==
  Established =>
    /\ \A i \in 1..Len(placed) : placed[i].seqnum = Plus32(SetupPkt.seqnum, i)
    /\ \A d \in DcSent : sent[d].pkt.seqnum = Plus32(SetupPkt.seqnum, Len(placed) + 1)
    /\ sess.sid_ = SetupPkt.sid
    /\ acks = 0 => /\ sess.sttl_ms_ = SetupPkt.sttl
                   /\ sess.window_remote_ = SetupPkt.window
                   /\ sess.last_ack_rcvd_ = SetupPkt.acknum

\* a run whose SETUP seqnum is 0xFFFFFFFE: two packets were enqueued, the
\* second with seqnum 0, and the disconnect packet was sent with seqnum 1
C33_Witness ==
  /\ Established /\ mode = "connect"
  /\ resp.seqnum = <<Half - 1, Half - 2>>
  /\ Len(placed) = 2 /\ placed[2].seqnum = Zero32
  /\ \E d \in DcSent : sent[d].pkt.seqnum = <<0, 1>>

\* C34: queue_data returns for every payload (each pass of its loop takes at
\* least one byte, so the bytes placed never exceed the payload), every
\* packet it places has 1 <= |data| <= 1440 or is the header-only REVIVE|ACK
\* packet of an empty revive payload, and serialize accepts every packet of
\* the transmit queue
C34_QueuedPacketsFit ==
  /\ \A i \in 1..Len(placed) :
       \/ 1 <= Len(placed[i].data) /\ Len(placed[i].data) <= MAX_PAY
       \/ /\ placed[i].data = <<>> /\ Len(placed) = 1
          /\ is_revive /\ payload = <<>>
          /\ placed[i].flags = OrFlag(FLAG_REVIVE, FLAG_ACK)
  /\ Len(placed) <= Len(payload) + 1
  /\ Len(ConcatData(placed)) <= Len(payload)
  /\ \A i \in 1..Len(sess.txq_) : serialize(sess.txq_[i].pkt).ok

\* a payload of 1441 bytes was cut into packets of 1440 bytes and 1 byte
\* behind an entry already in the queue
C34_Witness ==
  /\ calls > 1 /\ Len(payload) = MAX_PAY + 1
  /\ Len(placed) = 2 /\ Len(sess.txq_) > 2
  /\ Len(placed[1].data) = MAX_PAY /\ Len(placed[2].data) = 1
  /\ serialize(sess.txq_[Len(sess.txq_)].pkt).ok

\* C35: with a lossless channel and a peer that answers every data packet
\* with an ACK for its seqnum advertising at least 1440 bytes, and the
\* disconnect packet with an ACK for it, the transmit queue eventually
\* drains, the disconnect packet is eventually sent and the driver loop
\* eventually terminates
C35_EventuallyTerminates ==
  /\ <>(Established /\ sess.txq_ = <<>>)
  /\ <>(DcSent # {})
  /\ <>(pc = "done")

\* no entry of the transmit queue carries REVIVE
NoReviveEntries ==
  \A i \in 1..Len(sess.txq_) : ~HasFlag(sess.txq_[i].pkt.flags, FLAG_REVIVE)

\* C36: in a session without REVIVE entries, when the send phase transmits
\* a never-sent data packet the bytes in flight, that packet included, do
\* not exceed the remote window in force, and no transmission of the send
\* phase raises the bytes in flight above the larger of their value before
\* and the remote window
C36_InFlightWithinWindow ==
  [][(pc = "tx" /\ Transmits /\ NoReviveEntries) =>
       /\ Out.tag = "DATA/FRAG" => InFlight(sess') <= sess'.window_remote_
       /\ sess'.window_remote_ = sess.window_remote_
       /\ InFlight(sess') <= (IF InFlight(sess) > sess.window_remote_
                              THEN InFlight(sess) ELSE sess.window_remote_)]_vars

\* a first transmission has filled the remote window of 1000 bytes exactly
\* and the next entry of the queue is withheld
C36_Witness ==
  /\ pc = "dc" /\ mode = "connect"
  /\ sent[Len(sent)].tag = "DATA/FRAG"
  /\ sess.window_remote_ = 1000 /\ InFlight(sess) = 1000
  /\ Len(sess.txq_) = 2 /\ sess.txq_[2].first_sent = 0

\* every offset 0..m has been received
Covered(m) == \A o \in 0..m : \E j \in 1..Len(arrived) : arrived[j].fo = o

\* the data received for offset o
DataOf(o) == arrived[CHOOSE j \in 1..Len(arrived) : arrived[j].fo = o].data

\* the received data of the offsets lo..hi, in ascending order
RECURSIVE JoinRange(_, _)
JoinRange(lo, hi) ==
  IF lo > hi THEN <<>>
  ELSE IF lo = hi THEN DataOf(lo)
  ELSE JoinRange(lo, (lo + hi) \div 2) \o JoinRange((lo + hi) \div 2 + 1, hi)

\* C37: a payload is delivered for a fid only when every offset 0..m has
\* been received for it, and the bytes delivered are the received data of
\* exactly those offsets in ascending order, whatever the arrival sequence
C37_DeliversOnlyComplete ==
  \A k \in 1..Len(delivered) :
    \E m \in 0..(Byte - 1) : Covered(m) /\ delivered[k] = JoinRange(0, m)

\* C38: FragBuf::finish returns for every bucket, the complete bucket of
\* 256 fragments whose last fragment has fo = 255 included, so the receive
\* step of the driver loop always completes
C38_FinishTerminates == pc # "hang"

\* C39: in every reachable state the transmit queue is ordered by strictly
\* increasing seqnum from head to tail, in the unsigned 32-bit comparison
\* handle_ack applies to the head entry
C39_QueueSorted ==
  \A i \in 1..(Len(sess.txq_) - 1) :
    Lt32(sess.txq_[i].pkt.seqnum, sess.txq_[i + 1].pkt.seqnum)

\* C40: once the disconnect packet has been sent the transmit queue is
\* empty and stays empty, no data packet is transmitted after it, neither
\* for the first time nor again, and the queue is empty when the driver
\* loop has terminated
C40_NoDataAfterDisconnect ==
  /\ (waiting_dc_ack \/ DcSent # {}) => sess.txq_ = <<>>
  /\ \A d \in DcSent : \A i \in (d + 1)..Len(sent) :
       sent[i].tag \notin {"DATA/FRAG", "REVIVE", "RETX"}
  /\ pc = "done" => sess.txq_ = <<>> /\ DcSent # {}

\* the loop has terminated after a run that sent data, then the disconnect
\* packet, and nothing else
C40_Witness ==
  /\ pc = "done"
  /\ \E d \in DcSent : /\ d = Len(sent)
                       /\ sent[d - 1].tag \in {"DATA/FRAG", "RETX"}

====
